---- MODULE Spec2Model ----
(***************************************************************************)
(* Model of src/transaction/gas_fee_middleware.rs: GasFeeMiddleware, the   *)
(* ethers Middleware that fills the EIP-1559 fee fields of a transaction   *)
(* from the latest block's base fee and the fee history at a percentile    *)
(* chosen by GasFeeSpeed, then delegates to the inner middleware.           *)
(*                                                                         *)
(* One step of the model is what a fill_transaction future does between    *)
(* two await points: a future can be suspended (and other futures and the  *)
(* chain can move) only at an .await, and `tx` is an exclusive &mut        *)
(* borrow, so nothing observes the code between two awaits.                *)
(***************************************************************************)
EXTENDS Integers, Sequences, FiniteSets, TLC

VARIABLES
    speed,      \* the `speed as usize` handed to GasFeeMiddleware::new, -1 before
    stage,      \* Option<GasFeeMiddleware>: <<>> or <<[inner, fee_history_percentile]>>
    new_result, \* what GasFeeMiddleware::new returned
    head,       \* number of the provider's latest block
    pc,         \* per future: where fill_transaction is suspended
    tx,         \* per future: the caller's TypedTransaction behind `tx: &mut`
    block,      \* per future: the `block: Option<BlockId>` argument
    locals,     \* per future: the local base_fee_per_gas (l.102), live across the await of l.115
    result,     \* per future: the Result fill_transaction returned
    tx_in,      \* per future: the transaction as the caller passed it
    sent,       \* per future: the queries issued, with what was asked and answered
    advanced,   \* per future: the chain advanced between its two queries
    prev,       \* per future: the previous completed call of the same caller
    rounds      \* per future: calls started so far

vars == <<speed, stage, new_result, head, pc, tx, block, locals, result,
          tx_in, sent, advanced, prev, rounds>>

----------------------------------------------------------------------------
(* Bounds of the model. *)

NumCalls == 2        \* fill_transaction futures alive at once on the one stage
MaxRounds == 2       \* calls one caller makes in a row
MaxHeight == 1       \* the chain has blocks 0..MaxHeight
MaxSpeedIndex == 4   \* `speed as usize` is drawn from 0..MaxSpeedIndex
PastBlocks == 2      \* blocks of fee history asked for (utils::EIP1559_FEE_ESTIMATION_PAST_BLOCKS)

Calls == 1..NumCalls

----------------------------------------------------------------------------
(* Option<T>: None is the empty sequence, Some(v) the one-element one. *)

None == <<>>
Some(v) == <<v>>
IsSome(o) == Len(o) = 1
Unwrap(o) == o[1]

----------------------------------------------------------------------------
(* Speed resolution: lines 9-28 and GasFeeMiddleware::new, lines 67-77. *)

EIP1559_FEE_ESTIMATION_REWARD_PERCENTILE_SLOW == 25
EIP1559_FEE_ESTIMATION_REWARD_PERCENTILE_MEDIUM == 50
EIP1559_FEE_ESTIMATION_REWARD_PERCENTILE_FAST == 75
EIP1559_FEE_ESTIMATION_REWARD_PERCENTILE_FASTEST == 90

EIP1559_FEE_ESTIMATION_REWARD_PERCENTILES ==
    << EIP1559_FEE_ESTIMATION_REWARD_PERCENTILE_SLOW,
       EIP1559_FEE_ESTIMATION_REWARD_PERCENTILE_MEDIUM,
       EIP1559_FEE_ESTIMATION_REWARD_PERCENTILE_FAST,
       EIP1559_FEE_ESTIMATION_REWARD_PERCENTILE_FASTEST >>

\* enum GasFeeSpeed, #[repr(u8)]: the discriminants of the four variants.
GasFeeSpeed == [Slow |-> 0, Medium |-> 1, Fast |-> 2, Fastest |-> 3]

\* Vec::get(i) on a 0-based vector: Some(element) in range, None outside.
VecGetOffByOne(v, i) == IF i >= 1 /\ i <= Len(v) THEN Some(v[i]) ELSE None

VecGet(v, i) == IF i >= 0 /\ i < Len(v) THEN Some(v[i + 1]) ELSE None

\* GasFeeMiddleware::new: Ok(stage) or Err(InvalidGasFeeSpeed).
NewStage(inner, s) ==
    LET percentiles_vec == EIP1559_FEE_ESTIMATION_REWARD_PERCENTILES
        fee_history_percentile == VecGet(percentiles_vec, s)
    IN  IF IsSome(fee_history_percentile)
        THEN [ok |-> TRUE,
              stage |-> Some([inner |-> inner,
                              fee_history_percentile |-> Unwrap(fee_history_percentile)])]
        ELSE [ok |-> FALSE, stage |-> None]

Inners == {"provider"}

----------------------------------------------------------------------------
(* The chain-state provider behind the inner middleware (external): what   *)
(* get_block(Latest) and fee_history(.., Latest, ..) answer at a head.     *)

\* Block n of a chain with the fee market active.
BlockAt(n) == [number |-> n, base_fee_per_gas |-> Some(100 + n)]

\* Block n of a chain that predates the fee market: no base fee.
LegacyBlockAt(n) == [number |-> n, base_fee_per_gas |-> None]

\* The reward at percentile p of block n.
RewardAt(n, p) == 10 * n + p

ResolveBlock(tag, h) == IF tag = "latest" THEN h ELSE 0

\* FeeHistory.reward: per block of the window, one value per asked percentile.
RewardsAt(h, req) ==
    LET last == ResolveBlock(req.last_block, h)
        first == IF last - req.block_count + 1 < 0 THEN 0
                 ELSE last - req.block_count + 1
    IN  [i \in 1..(last - first + 1) |->
            [j \in 1..Len(req.reward_percentiles) |->
                RewardAt(first + i - 1, req.reward_percentiles[j])]]

\* M::Error values of the inner middleware.
ProviderErrors == {"timeout"}

\* Result<Option<Block>, M::Error> of get_block(Latest) at head h.
GetBlockResponses(h) ==
    {[err |-> Some(e), block |-> None] : e \in ProviderErrors}
    \cup {[err |-> None, block |-> None],
          [err |-> None, block |-> Some(LegacyBlockAt(h))],
          [err |-> None, block |-> Some(BlockAt(h))]}

\* Result<FeeHistory, M::Error> of fee_history(req) at head h.
FeeHistoryResponses(h, req) ==
    {[err |-> Some(e), reward |-> <<>>] : e \in ProviderErrors}
    \cup {[err |-> None, reward |-> RewardsAt(h, req)]}

RECURSIVE SumRows(_)
SumRows(rows) ==
    IF rows = <<>> THEN 0
    ELSE (IF rows[1] = <<>> THEN 0 ELSE rows[1][1]) + SumRows(Tail(rows))

\* utils::eip1559_default_estimator (external, a black box to this crate): a
\* fixed function of exactly its two arguments, sensitive to each of them.
Estimate(base_fee_per_gas, rewards) ==
    LET max_priority_fee_per_gas == SumRows(rewards) + Len(rewards)
    IN  [max_fee_per_gas |-> 2 * base_fee_per_gas + max_priority_fee_per_gas,
         max_priority_fee_per_gas |-> max_priority_fee_per_gas]

----------------------------------------------------------------------------
(* TypedTransaction and the results of fill_transaction. *)

Variants == {"Legacy", "Eip2930", "Eip1559"}

Tx(variant, max_fee, max_priority_fee) ==
    [variant |-> variant, max_fee_per_gas |-> max_fee,
     max_priority_fee_per_gas |-> max_priority_fee, gas |-> None]

\* The transactions callers pass: only the Eip1559 variant has the fee fields.
TxInputs ==
    {Tx("Legacy", None, None), Tx("Eip2930", None, None),
     Tx("Eip1559", None, None), Tx("Eip1559", Some(7), Some(3)),
     Tx("Eip1559", Some(7), None)}

BlockIds == {None, Some("latest")}

Fees(t) == <<t.max_fee_per_gas, t.max_priority_fee_per_gas>>

Pending == [kind |-> "Pending", payload |-> ""]
Ok == [kind |-> "Ok", payload |-> ""]
\* GasFeeMiddlewareError, lines 36-46.
MiddlewareError(e) == [kind |-> "MiddlewareError", payload |-> e]
ProviderError(msg) == [kind |-> "ProviderError", payload |-> msg]
InvalidGasFeeSpeed == [kind |-> "InvalidGasFeeSpeed", payload |-> ""]

\* MiddlewareError::as_inner, lines 55-60.
as_inner(r) == IF r.kind = "MiddlewareError" THEN Some(r.payload) ELSE None

----------------------------------------------------------------------------
(* The steps of fill_transaction, lines 96-131. *)

\* A slip: every typed (non-legacy) transaction taken for a fee-market one.
IsNotLegacy(t) == t.variant # "Legacy"

\* l.101: `if let TypedTransaction::Eip1559(ref mut inner_tx) = tx`.
IsEip1559(t) == t.variant = "Eip1559"

\* A slip: one transaction slot shared by every call on the stage.
TxOfFirstCall(c) == CHOOSE d \in Calls : \A e \in Calls : d <= e

\* l.101: inner_tx borrows from the transaction of this very call.
TxOf(c) == c

\* A slip: a failed query starts the estimation over instead of returning.
PcAfterRetry(ok, next) == IF ok THEN next ELSE "get_block"

\* The `?` after an await: on Err the function returns, on Ok it goes on.
PcAfter(ok, next) == IF ok THEN next ELSE "done"

\* A slip: unwrap_or_default() on the base fee instead of ok_or_else(..)?.
BaseFeePerGasOrDefault(resp) ==
    IF IsSome(resp.err)
    THEN [ok |-> FALSE, value |-> None,
          error |-> MiddlewareError(Unwrap(resp.err))]
    ELSE IF resp.block = None
    THEN [ok |-> FALSE, value |-> None,
          error |-> ProviderError("Latest block not found")]
    ELSE IF Unwrap(resp.block).base_fee_per_gas = None
    THEN [ok |-> TRUE, value |-> Some(0), error |-> Ok]
    ELSE [ok |-> TRUE, value |-> Unwrap(resp.block).base_fee_per_gas,
          error |-> Ok]

\* l.102-107: get_block(Latest).await?, then the two ok_or_else(..)?.
\* Middleware::get_block wraps the inner error with from_err (l.51-53).
BaseFeePerGas(resp) ==
    IF IsSome(resp.err)
    THEN [ok |-> FALSE, value |-> None,
          error |-> MiddlewareError(Unwrap(resp.err))]
    ELSE IF resp.block = None
    THEN [ok |-> FALSE, value |-> None,
          error |-> ProviderError("Latest block not found")]
    ELSE IF Unwrap(resp.block).base_fee_per_gas = None
    THEN [ok |-> FALSE, value |-> None,
          error |-> ProviderError("EIP-1559 not activated")]
    ELSE [ok |-> TRUE, value |-> Unwrap(resp.block).base_fee_per_gas,
          error |-> Ok]

\* A slip: the fee history asked for at BlockNumber::Earliest.
FeeHistoryRequestEarliest(s) ==
    [block_count |-> PastBlocks, last_block |-> "earliest",
     reward_percentiles |-> << s.fee_history_percentile >>]

\* l.110-114: the arguments of fee_history.
FeeHistoryRequest(s) ==
    [block_count |-> PastBlocks, last_block |-> "latest",
     reward_percentiles |-> << s.fee_history_percentile >>]

\* l.115: fee_history(..).await?, the inner error wrapped with from_err.
FeeHistoryResult(resp) ==
    IF IsSome(resp.err) THEN MiddlewareError(Unwrap(resp.err)) ELSE Ok

\* l.117-118: what eip1559_default_estimator is called with.
EstimatorArgs(base_fee_per_gas, fee_history) ==
    [base_fee_per_gas |-> base_fee_per_gas, rewards |-> fee_history.reward]

\* A slip: the caller's fee values kept where the caller supplied them.
SetFeesIfUnset(t, est) ==
    [t EXCEPT !.max_fee_per_gas =
                  IF IsSome(@) THEN @ ELSE Some(est.max_fee_per_gas),
              !.max_priority_fee_per_gas =
                  IF IsSome(@) THEN @ ELSE Some(est.max_priority_fee_per_gas)]

\* A slip: the second assignment (l.121) missing.
SetFeesMaxOnly(t, est) ==
    [t EXCEPT !.max_fee_per_gas = Some(est.max_fee_per_gas)]

\* A slip: the estimate added on top of a fee the transaction already has.
SetFeesOnTop(t, est) ==
    [t EXCEPT !.max_fee_per_gas =
                  IF IsSome(@) THEN Some(Unwrap(@) + est.max_fee_per_gas)
                  ELSE Some(est.max_fee_per_gas),
              !.max_priority_fee_per_gas =
                  IF IsSome(@) THEN Some(Unwrap(@) + est.max_priority_fee_per_gas)
                  ELSE Some(est.max_priority_fee_per_gas)]

\* l.120-121: both fee fields are assigned.
SetFees(t, est) ==
    [t EXCEPT !.max_fee_per_gas = Some(est.max_fee_per_gas),
              !.max_priority_fee_per_gas = Some(est.max_priority_fee_per_gas)]

\* A slip: `let _ = ...await` with the `?` left out: the error is dropped.
InnerResultIgnored(resp) == Ok

\* l.124-130: map_err(GasFeeMiddlewareError::MiddlewareError)?, then Ok(()).
InnerResult(resp) ==
    IF IsSome(resp.err) THEN MiddlewareError(Unwrap(resp.err)) ELSE Ok

\* The inner middleware's own fill_transaction (external): it fills what it
\* fills (here the gas limit) and succeeds, or fails having filled it or not.
InnerFillResponses(t) ==
    LET filled == [t EXCEPT !.gas = Some(1)]
    IN  {[err |-> None, tx |-> filled]}
        \cup {[err |-> Some(e), tx |-> u] : e \in ProviderErrors, u \in {t, filled}}

NoQueries ==
    [get_block |-> <<>>, fee_history |-> <<>>, estimator |-> <<>>,
     fill_transaction |-> <<>>]

NoLocals == [base_fee_per_gas |-> None]

----------------------------------------------------------------------------

Init ==
    /\ speed = -1
    /\ stage = None
    /\ new_result = Pending
    /\ head \in 0..MaxHeight
    /\ pc = [c \in Calls |-> "idle"]
    /\ tx = [c \in Calls |-> Tx("Legacy", None, None)]  \* no call made yet
    /\ block = [c \in Calls |-> None]
    /\ locals = [c \in Calls |-> NoLocals]
    /\ result = [c \in Calls |-> Pending]
    /\ tx_in = [c \in Calls |-> Tx("Legacy", None, None)]
    /\ sent = [c \in Calls |-> NoQueries]
    /\ advanced = [c \in Calls |-> FALSE]
    /\ prev = [c \in Calls |-> None]
    /\ rounds = [c \in Calls |-> 0]

\* GasFeeMiddleware::new(inner, speed), l.67-77.
New(inner, s) ==
    /\ speed = -1
    /\ speed' = s
    /\ stage' = NewStage(inner, s).stage
    /\ new_result' = IF NewStage(inner, s).ok THEN Ok ELSE InvalidGasFeeSpeed
    /\ UNCHANGED <<head, pc, tx, block, locals, result, tx_in, sent, advanced,
                   prev, rounds>>

\* The chain grows by one block.
Advance ==
    /\ head < MaxHeight
    /\ head' = head + 1
    /\ advanced' = [c \in Calls |-> advanced[c] \/ pc[c] = "fee_history"]
    /\ UNCHANGED <<speed, stage, new_result, pc, tx, block, locals, result,
                   tx_in, sent, prev, rounds>>

\* A caller starts fill_transaction(&mut t, b) on the stage, l.96-101, as
\* its first call or after its previous call returned.
Call(c, t, b, limit) ==
    /\ IsSome(stage)
    /\ pc[c] \in {"idle", "done"}
    /\ rounds[c] < limit
    /\ rounds' = [rounds EXCEPT ![c] = @ + 1]
    /\ prev' = [prev EXCEPT ![c] =
                   IF pc[c] = "done"
                   THEN Some([tx_in |-> tx_in[c], tx_out |-> tx[c],
                              sent |-> sent[c], result |-> result[c]])
                   ELSE @]
    /\ tx' = [tx EXCEPT ![c] = t]
    /\ tx_in' = [tx_in EXCEPT ![c] = t]
    /\ block' = [block EXCEPT ![c] = b]
    /\ locals' = [locals EXCEPT ![c] = NoLocals]
    /\ result' = [result EXCEPT ![c] = Pending]
    /\ sent' = [sent EXCEPT ![c] = NoQueries]
    /\ advanced' = [advanced EXCEPT ![c] = FALSE]
    /\ pc' = [pc EXCEPT ![c] =
                 IF IsEip1559(t) THEN "get_block" ELSE "fill_transaction"]
    /\ UNCHANGED <<speed, stage, new_result, head>>

\* l.102-107: the latest block is answered and its base fee taken.
GetBlock(c) ==
    /\ pc[c] = "get_block"
    /\ \E resp \in GetBlockResponses(head) :
        LET r == BaseFeePerGas(resp)
        IN  /\ locals' = [locals EXCEPT ![c].base_fee_per_gas = r.value]
            /\ result' = [result EXCEPT ![c] = IF r.ok THEN Pending ELSE r.error]
            /\ pc' = [pc EXCEPT ![c] = PcAfter(r.ok, "fee_history")]
            /\ sent' = [sent EXCEPT ![c].get_block =
                           Append(@, [req |-> "latest", resp |-> resp])]
    /\ UNCHANGED <<speed, stage, new_result, head, tx, block, tx_in, advanced,
                   prev, rounds>>

\* l.109-121: the fee history is answered; on Ok the estimator runs and both
\* fee fields are written, with no await in between.
FeeHistory(c) ==
    /\ pc[c] = "fee_history"
    /\ LET req == FeeHistoryRequest(Unwrap(stage))
       IN  \E resp \in FeeHistoryResponses(head, req) :
           LET r == FeeHistoryResult(resp)
               args == EstimatorArgs(Unwrap(locals[c].base_fee_per_gas), resp)
               est == Estimate(args.base_fee_per_gas, args.rewards)
           IN  /\ result' = [result EXCEPT ![c] = IF r = Ok THEN Pending ELSE r]
               /\ pc' = [pc EXCEPT ![c] = PcAfter(r = Ok, "fill_transaction")]
               /\ tx' = IF r = Ok
                        THEN [tx EXCEPT ![TxOf(c)] = SetFees(@, est)]
                        ELSE tx
               /\ sent' = [sent EXCEPT
                     ![c].fee_history =
                         Append(@, [req |-> req, resp |-> resp,
                                    at |-> ResolveBlock(req.last_block, head)]),
                     ![c].estimator = IF r = Ok THEN Append(@, args) ELSE @]
    /\ UNCHANGED <<speed, stage, new_result, head, block, locals, tx_in,
                   advanced, prev, rounds>>

\* l.124-130: the inner middleware's fill_transaction is answered.
InnerFill(c) ==
    /\ pc[c] = "fill_transaction"
    /\ \E resp \in InnerFillResponses(tx[c]) :
        /\ tx' = [tx EXCEPT ![c] = resp.tx]
        /\ result' = [result EXCEPT ![c] = InnerResult(resp)]
        /\ pc' = [pc EXCEPT ![c] = "done"]
        /\ sent' = [sent EXCEPT ![c].fill_transaction =
                       Append(@, [req |-> [tx |-> tx[c], block |-> block[c]],
                                  resp |-> resp])]
    /\ UNCHANGED <<speed, stage, new_result, head, block, locals, tx_in,
                   advanced, prev, rounds>>

----------------------------------------------------------------------------
(* Spec: one caller makes up to MaxRounds calls in a row on the stage, on  *)
(* any transaction or on the one its previous call left, while the chain   *)
(* grows.                                                                  *)

Caller == CHOOSE c \in Calls : \A d \in Calls : c <= d

Next ==
    \/ \E inner \in Inners, s \in 0..MaxSpeedIndex : New(inner, s)
    \/ Advance
    \/ \E t \in TxInputs \cup {tx[Caller]}, b \in BlockIds :
           Call(Caller, t, b, MaxRounds)
    \/ GetBlock(Caller)
    \/ FeeHistory(Caller)
    \/ InnerFill(Caller)

Spec == Init /\ [][Next]_vars

(* ConcurrentSpec: NumCalls callers each run one call on the same stage,   *)
(* their steps and the chain's interleaved in every order.                 *)

ConcurrentInputs == {Tx("Legacy", None, None), Tx("Eip1559", Some(7), Some(3))}

ConcurrentNext ==
    \/ \E inner \in Inners, s \in 0..MaxSpeedIndex : New(inner, s)
    \/ Advance
    \/ \E c \in Calls : \E t \in ConcurrentInputs : Call(c, t, None, 1)
    \/ \E c \in Calls : GetBlock(c)
    \/ \E c \in Calls : FeeHistory(c)
    \/ \E c \in Calls : InnerFill(c)

ConcurrentSpec == Init /\ [][ConcurrentNext]_vars

TypeOK ==
    /\ speed \in -1..MaxSpeedIndex
    /\ head \in 0..MaxHeight
    /\ \A c \in Calls :
        /\ pc[c] \in {"idle", "get_block", "fee_history", "fill_transaction", "done"}
        /\ rounds[c] \in 0..MaxRounds

----------------------------------------------------------------------------
(* What the properties below read off a call. *)

\* The latest-block query of call c was answered with a block carrying a base fee.
HasBaseFee(c) ==
    /\ Len(sent[c].get_block) >= 1
    /\ sent[c].get_block[1].resp.err = None
    /\ IsSome(sent[c].get_block[1].resp.block)
    /\ IsSome(Unwrap(sent[c].get_block[1].resp.block).base_fee_per_gas)

\* The fee-history query of call c was answered with reward samples.
HasRewards(c) ==
    /\ Len(sent[c].fee_history) >= 1
    /\ sent[c].fee_history[1].resp.err = None

\* B: the base fee the latest block of call c carried.
BaseFeeAnswered(c) ==
    Unwrap(Unwrap(sent[c].get_block[1].resp.block).base_fee_per_gas)

\* R: the reward samples the fee history of call c returned.
RewardsAnswered(c) == sent[c].fee_history[1].resp.reward

\* Estimate(B, R) as the two fee fields hold it.
EstimatedFees(b, r) ==
    << Some(Estimate(b, r).max_fee_per_gas),
       Some(Estimate(b, r).max_priority_fee_per_gas) >>

\* The percentile of a Speed Level, spec section 3.
SpeedPercentile(s) ==
    CASE s = GasFeeSpeed.Slow -> 25
      [] s = GasFeeSpeed.Medium -> 50
      [] s = GasFeeSpeed.Fast -> 75
      [] s = GasFeeSpeed.Fastest -> 90

\* A transaction of the fee-market variant.
FeeMarket(t) == t.variant = "Eip1559"

Failed(c) == pc[c] = "done" /\ result[c] # Ok

----------------------------------------------------------------------------
(* C1: for a fee-market transaction, when the latest block carries base    *)
(* fee B and the fee history, asked for the one percentile the stage       *)
(* resolved, returns rewards R, a successful fill_transaction leaves       *)
(* max_fee_per_gas and max_priority_fee_per_gas equal to Estimate(B, R):   *)
(* the estimator was called once, with exactly (B, R), and the values the  *)
(* caller had supplied are overwritten.                                    *)
C1_FeesAreTheEstimate ==
    \A c \in Calls :
        (FeeMarket(tx_in[c]) /\ pc[c] = "done" /\ result[c] = Ok) =>
            /\ HasBaseFee(c) /\ HasRewards(c)
            /\ sent[c].fee_history[1].req.reward_percentiles
                   = << SpeedPercentile(speed) >>
            /\ sent[c].estimator
                   = << [base_fee_per_gas |-> BaseFeeAnswered(c),
                         rewards |-> RewardsAnswered(c)] >>
            /\ Fees(tx[c]) = EstimatedFees(BaseFeeAnswered(c), RewardsAnswered(c))

\* A successful call on a fee-market transaction that came with fee values.
C1_Witness ==
    /\ pc[Caller] = "done" /\ result[Caller] = Ok
    /\ FeeMarket(tx_in[Caller])
    /\ Fees(tx_in[Caller]) = << Some(7), Some(3) >>
    /\ Fees(tx[Caller]) # Fees(tx_in[Caller])

(* C2: for a transaction that is not of the fee-market variant, no         *)
(* latest-block query and no fee-history query is made, the transaction    *)
(* reaches the inner stage as the caller passed it, and what the call      *)
(* leaves is what the inner stage left.                                    *)
C2_OtherVariantsPassThrough ==
    \A c \in Calls :
        ~FeeMarket(tx_in[c]) =>
            /\ pc[c] \in {"idle", "fill_transaction", "done"}
            /\ sent[c].get_block = <<>>
            /\ sent[c].fee_history = <<>>
            /\ sent[c].estimator = <<>>
            /\ pc[c] = "fill_transaction" => tx[c] = tx_in[c]
            /\ pc[c] = "done" =>
                /\ Len(sent[c].fill_transaction) = 1
                /\ sent[c].fill_transaction[1].req
                       = [tx |-> tx_in[c], block |-> block[c]]
                /\ tx[c] = sent[c].fill_transaction[1].resp.tx

\* A finished call on an access-list (Eip2930) transaction.
C2_Witness ==
    /\ pc[Caller] = "done"
    /\ tx_in[Caller].variant = "Eip2930"
    /\ Len(sent[Caller].fill_transaction) = 1

(* C3: for a fee-market transaction, if the latest-block query returns no  *)
(* block, or a block without a base fee, fill_transaction fails with a     *)
(* ProviderError ("Latest block not found", "EIP-1559 not activated") and  *)
(* the fee fields are as the caller passed them.                           *)
C3_NoBaseFeeFails ==
    \A c \in Calls :
        (/\ FeeMarket(tx_in[c])
         /\ Len(sent[c].get_block) >= 1
         /\ sent[c].get_block[1].resp.err = None
         /\ ~HasBaseFee(c)) =>
            /\ pc[c] = "done"
            /\ result[c] =
                   IF sent[c].get_block[1].resp.block = None
                   THEN ProviderError("Latest block not found")
                   ELSE ProviderError("EIP-1559 not activated")
            /\ Fees(tx[c]) = Fees(tx_in[c])

\* The latest block came without a base fee, on a transaction with fee values.
C3_Witness ==
    /\ Len(sent[Caller].get_block) = 1
    /\ IsSome(sent[Caller].get_block[1].resp.block)
    /\ ~HasBaseFee(Caller)
    /\ Fees(tx_in[Caller]) = << Some(7), Some(3) >>
    /\ result[Caller].kind = "ProviderError"

(* C4: if the inner stage's fill_transaction fails with e, the call fails  *)
(* with MiddlewareError(e), as_inner gives e back, and the fee fields this *)
(* stage wrote into a fee-market transaction stay as it wrote them.        *)
C4_InnerErrorSurfaces ==
    \A c \in Calls :
        (/\ pc[c] = "done"
         /\ Len(sent[c].fill_transaction) >= 1
         /\ IsSome(sent[c].fill_transaction[1].resp.err)) =>
            /\ result[c].kind = "MiddlewareError"
            /\ as_inner(result[c]) = sent[c].fill_transaction[1].resp.err
            /\ FeeMarket(tx_in[c]) =>
                /\ HasBaseFee(c) /\ HasRewards(c)
                /\ Fees(tx[c])
                       = EstimatedFees(BaseFeeAnswered(c), RewardsAnswered(c))

\* The inner stage failed after this stage replaced the caller's fee values.
C4_Witness ==
    /\ pc[Caller] = "done"
    /\ FeeMarket(tx_in[Caller])
    /\ Len(sent[Caller].fill_transaction) = 1
    /\ IsSome(sent[Caller].fill_transaction[1].resp.err)
    /\ Fees(tx[Caller]) # Fees(tx_in[Caller])

(* C5: this stage never writes one fee field without the other. Until the  *)
(* estimator has run, and so on every failure before the write (the        *)
(* latest-block query fails, no block, no base fee, the fee-history query  *)
(* fails), the stage has set neither field: both are as the caller passed  *)
(* them, unset if the caller left them unset. Once the write has happened  *)
(* both are set, to the two values of the one estimate.                    *)
C5_FeesSetTogether ==
    \A c \in Calls :
        /\ sent[c].estimator = <<>> => Fees(tx[c]) = Fees(tx_in[c])
        /\ (Failed(c) /\ sent[c].fill_transaction = <<>>) =>
               /\ sent[c].estimator = <<>>
               /\ Fees(tx_in[c]) = <<None, None>> => Fees(tx[c]) = <<None, None>>
        /\ sent[c].estimator # <<>> =>
               /\ IsSome(tx[c].max_fee_per_gas)
               /\ IsSome(tx[c].max_priority_fee_per_gas)
               /\ Fees(tx[c]) = EstimatedFees(sent[c].estimator[1].base_fee_per_gas,
                                              sent[c].estimator[1].rewards)

\* The write has happened on a transaction that came with no fee values.
C5_Witness ==
    /\ sent[Caller].estimator # <<>>
    /\ Fees(tx_in[Caller]) = <<None, None>>
    /\ pc[Caller] = "fill_transaction"

(* C6: speed resolution at construction is total and exact: Slow gives     *)
(* percentile 25, Medium 50, Fast 75, Fastest 90, a more urgent level      *)
(* never a lower percentile, and a `speed as usize` outside the four       *)
(* fails with InvalidGasFeeSpeed and gives no stage.                       *)
C6_SpeedResolution ==
    /\ speed \in 0..3 =>
           /\ new_result = Ok
           /\ IsSome(stage)
           /\ Unwrap(stage).fee_history_percentile = SpeedPercentile(speed)
           /\ \A s \in 0..3 :
                  s < speed =>
                      /\ NewStage(Unwrap(stage).inner, s).ok
                      /\ Unwrap(NewStage(Unwrap(stage).inner, s).stage).fee_history_percentile
                             <= Unwrap(stage).fee_history_percentile
    /\ (speed # -1 /\ speed \notin 0..3) =>
           /\ new_result = InvalidGasFeeSpeed
           /\ stage = None

\* The stage was built for the most urgent level.
C6_Witness ==
    /\ speed = GasFeeSpeed.Fastest
    /\ new_result = Ok
    /\ Unwrap(stage).fee_history_percentile = 90

\* Two calls had their chain-state queries answered alike.
SameChainState(s1, s2) ==
    /\ s1.get_block = s2.get_block
    /\ s1.fee_history = s2.fee_history

(* C7: fill_transaction is idempotent under stable chain state. When a     *)
(* caller's call follows its previous one and the two queries are answered *)
(* as they were in the previous call, then (a) on the same input           *)
(* transaction the call leaves the same fee fields, and (b) on the         *)
(* previous call's output transaction it leaves the fee fields as they are.*)
C7_Idempotent ==
    \A c \in Calls :
        (pc[c] = "done" /\ IsSome(prev[c])) =>
            LET p == Unwrap(prev[c])
            IN  SameChainState(sent[c], p.sent) =>
                    /\ tx_in[c] = p.tx_in => Fees(tx[c]) = Fees(p.tx_out)
                    /\ tx_in[c] = p.tx_out => Fees(tx[c]) = Fees(p.tx_out)

\* A call on the output of a previous call that had replaced the fee values,
\* both calls answered alike.
C7_Witness ==
    /\ pc[Caller] = "done" /\ IsSome(prev[Caller])
    /\ sent[Caller].estimator # <<>>
    /\ SameChainState(sent[Caller], Unwrap(prev[Caller]).sent)
    /\ tx_in[Caller] = Unwrap(prev[Caller]).tx_out
    /\ Fees(Unwrap(prev[Caller]).tx_in) = << Some(7), Some(3) >>
    /\ Fees(tx_in[Caller]) # << Some(7), Some(3) >>

(* C8: in one call the stage issues at most one latest-block query, at     *)
(* most one fee-history query and delegates at most once; a failed query   *)
(* (latest-block error, no block, no base fee, fee-history error) ends the *)
(* call with that error at once: no further query, no inner preparation.   *)
C8_FailureIsAHardStop ==
    \A c \in Calls :
        /\ Len(sent[c].get_block) <= 1
        /\ Len(sent[c].fee_history) <= 1
        /\ Len(sent[c].fill_transaction) <= 1
        /\ (Len(sent[c].get_block) >= 1 /\ ~HasBaseFee(c)) =>
               /\ pc[c] = "done"
               /\ result[c].kind \in {"MiddlewareError", "ProviderError"}
               /\ IsSome(sent[c].get_block[1].resp.err) =>
                      result[c] = MiddlewareError(Unwrap(sent[c].get_block[1].resp.err))
               /\ sent[c].fee_history = <<>>
               /\ sent[c].fill_transaction = <<>>
        /\ (Len(sent[c].fee_history) >= 1 /\ ~HasRewards(c)) =>
               /\ pc[c] = "done"
               /\ result[c] = MiddlewareError(Unwrap(sent[c].fee_history[1].resp.err))
               /\ sent[c].fill_transaction = <<>>

\* The fee-history query failed after the latest block was answered.
C8_Witness ==
    /\ HasBaseFee(Caller)
    /\ Len(sent[Caller].fee_history) = 1
    /\ ~HasRewards(Caller)
    /\ pc[Caller] = "done"

(* C9, as claimed: within one call the base fee and the reward samples     *)
(* given to the estimator always belong to one and the same chain state,   *)
(* also when the chain advances between the two queries.                   *)
C9_SameChainStateAlways ==
    \A c \in Calls :
        sent[c].estimator # <<>> =>
            Unwrap(sent[c].get_block[1].resp.block).number
                = sent[c].fee_history[1].at

(* C9, amended: each query reads the head that is latest when it is        *)
(* answered. The base fee and the reward samples belong to the same chain  *)
(* state exactly when the chain did not advance between the two queries;   *)
(* when it did, the base fee is that of the older head and the rewards end *)
(* at a newer one.                                                         *)
C9_SameChainStateUnlessAdvanced ==
    \A c \in Calls :
        sent[c].estimator # <<>> =>
            LET b == Unwrap(sent[c].get_block[1].resp.block).number
                h == sent[c].fee_history[1].at
            IN  /\ ~advanced[c] => b = h
                /\ advanced[c] => b < h

\* The chain advanced between the two queries of a call that went on to write.
C9_Witness ==
    /\ advanced[Caller]
    /\ sent[Caller].estimator # <<>>
    /\ Fees(tx[Caller]) = EstimatedFees(BaseFeeAnswered(Caller),
                                        RewardsAnswered(Caller))

\* What every step of the program keeps, for C10.
C10_Step ==
    /\ IsSome(stage) => stage' = stage
    /\ \A c \in Calls :
           (pc'[c] = pc[c] /\ sent'[c] = sent[c]) => tx'[c] = tx[c]
    /\ \A c \in Calls :
           (pc[c] = "fee_history" /\ pc'[c] = "fill_transaction") =>
               LET g == Unwrap(sent'[c].get_block[1].resp.block)
                   f == sent'[c].fee_history[1].resp
               IN  Fees(tx'[c]) = EstimatedFees(Unwrap(g.base_fee_per_gas), f.reward)

(* C10: concurrent calls on one stage are independent. Once built, the     *)
(* stage (percentile and inner) never changes; a step that is not a step   *)
(* of call c leaves c's transaction alone; and the fees call c writes are  *)
(* Estimate of the answers to c's own two queries.                         *)
C10_CallsIndependent == [][C10_Step]_vars

\* Two calls in flight at once that were answered differently: one has
\* written its fees while the other is suspended between its two queries.
C10_Witness ==
    \E c, d \in Calls :
        /\ c # d
        /\ pc[c] = "fill_transaction" /\ FeeMarket(tx_in[c])
        /\ pc[d] = "fee_history"
        /\ locals[d].base_fee_per_gas # Some(BaseFeeAnswered(c))

====
